---- MODULE Spec2Model ----
(***************************************************************************)
(* Model of patent_client's PublicSearchApi                                *)
(* (src/patent_client/_sync/uspto/public_search/api.py): the session       *)
(* bootstrap, the 403/429 recovery of make_request, the construction of    *)
(* the search request in run_query and the print-job export of             *)
(* download_image.                                                         *)
(*                                                                         *)
(* One caller drives one PublicSearchApi object.  An action is the code    *)
(* that runs from one transport request to the next: it issues the         *)
(* request, draws the server's answer from a small set and runs the        *)
(* handler up to the next request, return or raise.  `trace` records what  *)
(* the current top-level call did on the network and on the clock.         *)
(*                                                                         *)
(* The server answers 200, 403, 429 or 500.  A transport failure is drawn  *)
(* where it leaves the object or the directory changed: at the landing     *)
(* request of get_session, after the cookie jar was emptied, and in the    *)
(* streaming of the artifact, after the file was opened.  Elsewhere it     *)
(* ends the call with the state as it was and is not drawn.                *)
(***************************************************************************)
EXTENDS Integers, Sequences, FiniteSets, TLC

\* ------------------------------------------------------------------ bounds
\* Sessions the server hands out before the landing page stops answering.
MaxSessions == 3
\* Largest value of the x-rate-limit-retry-after-seconds header.
MaxRetryAfter == 1
\* Status polls the server answers with a non-COMPLETED status per export.
MaxPolls == 2
\* Largest page count of a document.
MaxPages == 11

\* self.case_id = None, self.session = dict(): no session yet.
NoSession == 0

VARIABLES
    case_id,        \* self.case_id: NoSession or the id of a bootstrap
    session,        \* self.session: the decoded body stored, see StoredBody
    access_token,   \* self.access_token: NoSession while the attribute is unset
    hdr_token,      \* self.client.headers["X-Access-Token"]
    cookies,        \* self.client.cookies: the bootstrap whose cookies are held
    search_query,   \* self.search_query: the query template
    srv,            \* server side: number of sessions handed out
    files,          \* the destination directory: guid -> absent/partial/complete
    pc,             \* the caller's position
    stack,          \* return positions of the calls in progress
    op,             \* the top-level call in progress or last made
    ret,            \* its outcome
    data,           \* run_query's local `data`
    mr_req,         \* make_request's arguments (method, url, kwargs)
    response,       \* the local `response`
    print_job_id,   \* download_image's local
    print_data,     \* download_image's local: print_data[0]
    polls,          \* non-COMPLETED polls answered in this export
    trace,          \* requests, sleeps, bootstraps of the top-level call
    mr_start,       \* length of trace when make_request was last entered
    ref,            \* observer: one counts or search request sent earlier
    threads,        \* two concurrent callers of the one object: their positions and locals
    manager         \* a USApplicationManager (peds.py) and the server's result set

vars == <<case_id, session, access_token, hdr_token, cookies, search_query,
          srv, files, pc, stack, op, ret, data, mr_req, response,
          print_job_id, print_data, polls, trace, mr_start, ref, threads,
          manager>>

obj_vars == <<case_id, session, access_token, hdr_token, cookies>>
\* download_image's locals, and the observer of run_query's requests.
di_vars == <<print_job_id, print_data, polls, ref>>

\* ------------------------------------------------------------- the inputs
\* A response as the code reads it: status_code, the
\* x-rate-limit-retry-after-seconds header (<<>> when absent, <<t>> for the
\* header text t, a sequence of characters), the embedded error object of
\* the decoded body and the response text.
DigitChar == <<"0", "1", "2", "3", "4", "5", "6", "7", "8", "9">>

\* str(i) of a natural number.
RECURSIVE Str(_)
Str(i) == IF i < 10 THEN DigitChar[i + 1] ELSE Str(i \div 10) \o DigitChar[(i % 10) + 1]

\* result.get("error", None): <<>> for an absent or null error, <<e>> for
\* the error object e.
NoError == <<>>
ErrorObjects ==
    {[errorCode |-> 17, errorMessage |-> "syntax error"],
     [errorCode |-> 404, errorMessage |-> "no such field"]}

Resp(st, retry, err, text) == [st |-> st, retry |-> retry, err |-> err, text |-> text]
NoResp == Resp(0, <<>>, NoError, "")

\* The decimal text of a natural number, character by character.
RECURSIVE Chars(_)
Chars(i) ==
    IF i < 10 THEN <<DigitChar[i + 1]>>
    ELSE Chars(i \div 10) \o <<DigitChar[(i % 10) + 1]>>

\* Header texts that int() rejects.
NonNumeric == {<<"s", "o", "o", "n">>, <<"1", ".", "5">>}

RetryHeaders ==
    {<<>>} \cup {<<Chars(n)>> : n \in 0..MaxRetryAfter} \cup {<<t>> : t \in NonNumeric}

\* What the server may answer to a request made through make_request.
Responses ==
    {Resp(st, <<>>, NoError, "") : st \in {403, 500}}
    \cup {Resp(200, <<>>, NoError, "")}
    \cup {Resp(200, <<>>, <<e>>, "") : e \in ErrorObjects}
    \cup {Resp(500, <<>>, <<e>>, "") : e \in {o \in ErrorObjects : o.errorCode = 17}}
    \cup {Resp(429, h, NoError, "") : h \in RetryHeaders}

\* A caller that does not call raise_for_status.
StatusUnchecked(r) == FALSE

\* response.raise_for_status() raises HTTPStatusError.
IsError(r) == r.st # 200

\* ------------------------------------------------------------- the trace
NoBody == [none |-> TRUE]
Req(kind, body) == [kind |-> kind, body |-> body]
NoReq == Req("none", NoBody)
\* An event: a request sent, with the status, the retry-after header and what
\* the code reads of the body of its response; a time.sleep(n); a get_session
\* entered; a response closed.
Ev(e, req, st, hdr, body, n) ==
    [e |-> e, req |-> req, st |-> st, hdr |-> hdr, body |-> body, n |-> n]
EvReq(req, st) == Ev("req", req, st, <<>>, NoBody, 0)
EvResp(req, r) == Ev("req", req, r.st, r.retry, NoBody, 0)
EvBody(req, st, body) == Ev("req", req, st, <<>>, body, 0)
EvSleep(n) == Ev("sleep", NoReq, 0, <<>>, NoBody, n)
EvBoot == Ev("boot", NoReq, 0, <<>>, NoBody, 0)
EvClose == Ev("close", NoReq, 0, <<>>, NoBody, 0)

Returned(v) == [kind |-> "return", val |-> v]
Raised(exc) == [kind |-> "raise", val |-> exc]
\* A UsptoException with its message.
RaisedWith(exc, msg) == [kind |-> "raise", val |-> exc, msg |-> msg]
NoRet == [kind |-> "none", val |-> ""]
NoRef == [p |-> NoBody, req |-> NoReq]

\* Two callers that share one PublicSearchApi, each with its own call stack:
\* where it stands, the caseId its `data` holds (line 68), the request it is
\* making, the bootstrap its get_session is in, what that bootstrap's session
\* response holds, and where get_session returns to.
Threads == {"A", "B"}
\* No USApplicationManager made yet.
NoManager == [none |-> TRUE]
IdleThread == [pc |-> "idle", caseId |-> NoSession, kind |-> "none",
               boot |-> NoSession, answer |-> "none", back |-> "none"]

\* ---------------------------------------------------------- call and raise
Call(entry, back) == pc' = entry /\ stack' = <<back>> \o stack
Return == pc' = Head(stack) /\ stack' = Tail(stack)
\* No handler of the module catches what its own calls raise, except the
\* one of the streaming step, which re-raises: an exception ends the call.
Raise(exc) == pc' = "idle" /\ stack' = <<>> /\ ret' = Raised(exc)
RaiseWith(exc, msg) == pc' = "idle" /\ stack' = <<>> /\ ret' = RaisedWith(exc, msg)
Finish(v) == pc' = "idle" /\ stack' = <<>> /\ ret' = Returned(v)

\* ------------------------------------------------------------ get_session
\* get_session, lines 118-119: the cookie jar is replaced by an empty one and
\* the landing page is fetched for its cookies.  The server starts session
\* srv + 1, or the transport fails and the exception leaves get_session.
GetSessionLanding ==
    /\ pc = "gs_landing"
    /\ \E ok \in {b \in BOOLEAN : b => srv < MaxSessions} :
         IF ok
         THEN /\ cookies' = srv + 1
              /\ srv' = srv + 1
              /\ trace' = trace \o <<EvBoot, EvReq(Req("landing", NoBody), 200)>>
              /\ pc' = "gs_post"
              /\ UNCHANGED <<stack, ret>>
         ELSE /\ cookies' = NoSession
              /\ srv' = srv
              /\ trace' = trace \o <<EvBoot, EvReq(Req("landing", NoBody), 0)>>
              /\ Raise("TransportError")
    /\ UNCHANGED <<case_id, session, access_token, hdr_token, search_query,
                   files, op, data, mr_req, response, di_vars, mr_start>>
    /\ UNCHANGED <<threads, manager>>

\* What the session endpoint may answer: a body with userCase.caseId and the
\* X-Access-Token header; a body that does not decode; a body without
\* userCase; a response without the header.
SessionAnswers == {"ok", "undecodable", "nocase", "notoken"}

\* The assignments of lines 129-132 run in this order, each only if the
\* statement before it did not raise.
StoresBody(a) == a \in {"ok", "nocase", "notoken"}
StoresCase(a) == a \in {"ok", "notoken"}
StoresToken(a) == a = "ok"

SessionError(a) == IF a = "undecodable" THEN "JSONDecodeError" ELSE "KeyError"

\* self.session, the decoded body of a session response: the bootstrap it
\* belongs to, and whether it has userCase.caseId (the caseId is then the
\* bootstrap's).  dict() of the constructor has neither.
StoredBody(boot, a) == [boot |-> boot, userCase |-> StoresCase(a)]
EmptyBody == [boot |-> NoSession, userCase |-> FALSE]

\* What get_session reads of the session POST's response: a decodable body,
\* its userCase.caseId, the X-Access-Token header.
SessionBody(a) == [json |-> StoresBody(a), caseId |-> StoresCase(a), token |-> StoresToken(a)]

\* A make_request that starts the bootstrap over when it fails.
SessionFailsRenewing(a) ==
    IF stack # <<>> /\ Head(stack) = "mr_second"
    THEN pc' = "gs_landing" /\ UNCHANGED <<stack, ret>>
    ELSE Raise(SessionError(a))

\* The exception of line 129, 130 or 131 leaves get_session and, with no
\* handler at line 97 or in the operations, the call.
SessionFails(a) == Raise(SessionError(a))

\* get_session, lines 120-133.
GetSessionPost ==
    /\ pc = "gs_post"
    /\ \E a \in SessionAnswers :
         /\ session' = IF StoresBody(a) THEN StoredBody(cookies, a) ELSE session
         /\ case_id' = IF StoresCase(a) THEN cookies ELSE case_id
         /\ access_token' = IF StoresToken(a) THEN cookies ELSE access_token
         /\ hdr_token' = IF StoresToken(a) THEN cookies ELSE hdr_token
         /\ trace' = Append(trace, EvBody(Req("session", NoBody), 200, SessionBody(a)))
         /\ IF a = "ok"
            THEN IF stack = <<>>
                 THEN Finish("session")
                 ELSE Return /\ ret' = ret
            ELSE SessionFails(a)
    /\ UNCHANGED <<cookies, search_query, srv, files, op, data, mr_req,
                   response, di_vars, mr_start>>
    /\ UNCHANGED <<threads, manager>>

\* ----------------------------------------------------------- make_request
\* int(t) of line 100 accepts t: a non-empty run of decimal digits (the
\* signs, blanks and underscores int() also accepts are not among the
\* header texts drawn).
IsDigits(t) ==
    /\ t # <<>>
    /\ \A i \in 1..Len(t) : \E d \in 1..Len(DigitChar) : DigitChar[d] = t[i]

DigitValue(c) == (CHOOSE d \in 1..Len(DigitChar) : DigitChar[d] = c) - 1

\* int(t) for a text of digits.
RECURSIVE IntOf(_)
IntOf(t) ==
    IF t = <<>> THEN 0
    ELSE IntOf(SubSeq(t, 1, Len(t) - 1)) * 10 + DigitValue(t[Len(t)])

\* A wait of the header's value alone.
WaitTimeBare(h) == IntOf(h[1])

\* int(response.headers["x-rate-limit-retry-after-seconds"]) + 1, line 100.
WaitTime(h) == IntOf(h[1]) + 1

\* Line 100 raises: KeyError for an absent header, ValueError from int() for
\* a text that is not a number.
HeaderRaises(h) == h = <<>> \/ ~IsDigits(h[1])
HeaderError(h) == IF h = <<>> THEN "KeyError" ELSE "ValueError"

\* A make_request that hands the 429 back when it cannot read the header.
HeaderFailsQuietly(h, tr) == trace' = tr /\ Return /\ ret' = ret

\* The exception of line 100 leaves make_request, which has no handler.
HeaderFails(h, tr) == trace' = tr /\ Raise(HeaderError(h))

\* What the server may answer to a request of this kind (only the search
\* response's embedded error object is read).
ResponsesFor(kind) ==
    {r \in Responses : r.err # NoError => kind = "search"}

\* Lines 99-103, with `tr` the trace up to the response r just received.
RateLimited(r, tr) ==
    IF r.st = 429
    THEN IF HeaderRaises(r.retry)
         THEN HeaderFails(r.retry, tr)
         ELSE /\ trace' = Append(tr, EvSleep(WaitTime(r.retry)))
              /\ pc' = "mr_third"
              /\ UNCHANGED <<stack, ret>>
    ELSE trace' = tr /\ Return /\ ret' = ret

\* Lines 96-97: a 403 calls get_session, once; line 98 follows its return.
Forbidden(r, tr) ==
    IF r.st = 403
    THEN /\ trace' = tr
         /\ Call("gs_landing", "mr_second")
         /\ ret' = ret
    ELSE RateLimited(r, tr)

\* A make_request that renews the session for every 403 (`while` for `if`).
AfterReissueRenewing(r, tr) == Forbidden(r, tr)

\* Line 99 after the reissue of line 98: its 403 is not looked at again.
AfterReissue(r, tr) == RateLimited(r, tr)

\* A make_request that backs off for every 429 (`while` for `if`).
AfterBackoffAgain(r, tr) == RateLimited(r, tr)

\* Line 103 after the reissue of line 102: the response is returned.
AfterBackoff(r, tr) == trace' = tr /\ Return /\ ret' = ret

\* Line 95: the request as given.
MakeRequestFirst ==
    /\ pc = "mr_first"
    /\ \E r \in ResponsesFor(mr_req.kind) :
         /\ response' = r
         /\ Forbidden(r, Append(trace, EvResp(mr_req, r)))
    /\ UNCHANGED <<obj_vars, search_query, srv, files, op, data, mr_req,
                   di_vars, mr_start>>
    /\ UNCHANGED <<threads, manager>>

\* Line 98: the reissue after get_session returned.
MakeRequestSecond ==
    /\ pc = "mr_second"
    /\ \E r \in ResponsesFor(mr_req.kind) :
         /\ response' = r
         /\ AfterReissue(r, Append(trace, EvResp(mr_req, r)))
    /\ UNCHANGED <<obj_vars, search_query, srv, files, op, data, mr_req,
                   di_vars, mr_start>>
    /\ UNCHANGED <<threads, manager>>

\* Lines 102-103: the reissue after the sleep; its response is returned.
MakeRequestThird ==
    /\ pc = "mr_third"
    /\ \E r \in ResponsesFor(mr_req.kind) :
         /\ response' = r
         /\ AfterBackoff(r, Append(trace, EvResp(mr_req, r)))
    /\ UNCHANGED <<obj_vars, search_query, srv, files, op, data, mr_req,
                   di_vars, mr_start>>
    /\ UNCHANGED <<threads, manager>>

\* -------------------------------------------------------------- run_query
\* search_query.json, read at line 49: the skeleton the calls overlay.  The
\* file is configuration; docFamilyFiltering and searchType stand for the
\* fields no call writes.
SearchQueryTemplate ==
    [start |-> 0, pageCount |-> 500, sort |-> "date_publ desc",
     docFamilyFiltering |-> "familyIdFiltering",
     query |-> [caseId |-> NoSession, op |-> "OR", q |-> "", queryName |-> "",
                userEnteredQuery |-> "", databaseFilters |-> <<>>,
                plurals |-> FALSE, britishEquivalents |-> FALSE,
                searchType |-> 1]]

\* The defaults of run_query's parameters, lines 54-60.
DefaultParams ==
    [query |-> "battery AND charger", start |-> 0, limit |-> 500,
     sort |-> "date_publ desc", default_operator |-> "OR",
     sources |-> <<"US-PGPUB", "USPAT", "USOCR">>,
     expand_plurals |-> TRUE, british_equivalents |-> TRUE]

\* The calls made: the defaults, and the defaults with one argument changed.
QueryParams ==
    {DefaultParams}
    \cup {[DefaultParams EXCEPT !.query = "laser"]}
    \cup {[DefaultParams EXCEPT !.start = 500]}
    \cup {[DefaultParams EXCEPT !.limit = 25]}
    \cup {[DefaultParams EXCEPT !.sort = "score desc"]}
    \cup {[DefaultParams EXCEPT !.default_operator = "AND"]}
    \cup {[DefaultParams EXCEPT !.sources = ss] :
            ss \in {<<"A", "B">>, <<"B", "A">>, <<"USPAT">>, <<>>}}
    \cup {[DefaultParams EXCEPT !.expand_plurals = FALSE]}
    \cup {[DefaultParams EXCEPT !.british_equivalents = FALSE]}

\* Lines 73-75: one filter per source, in the order given.
DatabaseFilters(sources) ==
    [i \in 1..Len(sources) |-> [databaseName |-> sources[i], countryCodes |-> <<>>]]

\* An overlay that leaves the queryName slot as the template has it.
OverlayTwoSlots(d, p, cid) ==
    [d EXCEPT !.start = p.start,
              !.pageCount = p.limit,
              !.sort = p.sort,
              !.query = [d.query EXCEPT
                  !.caseId = cid,
                  !.op = p.default_operator,
                  !.q = p.query,
                  !.userEnteredQuery = p.query,
                  !.databaseFilters = DatabaseFilters(p.sources),
                  !.plurals = p.expand_plurals,
                  !.britishEquivalents = p.british_equivalents]]

\* Lines 65-77, the overlay on the copy d.
Overlay(d, p, cid) ==
    [d EXCEPT !.start = p.start,
              !.pageCount = p.limit,
              !.sort = p.sort,
              !.query = [d.query EXCEPT
                  !.caseId = cid,
                  !.op = p.default_operator,
                  !.q = p.query,
                  !.queryName = p.query,
                  !.userEnteredQuery = p.query,
                  !.databaseFilters = DatabaseFilters(p.sources),
                  !.plurals = p.expand_plurals,
                  !.britishEquivalents = p.british_equivalents]]

\* A run_query that writes to the template itself (no deepcopy) and extends
\* the filter list it finds there.
BuildDataInPlace(tmpl, p, cid) ==
    LET d == [Overlay(tmpl, p, cid) EXCEPT
                 !.query.databaseFilters =
                     tmpl.query.databaseFilters \o DatabaseFilters(p.sources)]
    IN  [data |-> d, tmpl |-> d]

\* A run_query that overlays a shallow copy: the top-level fields are the
\* copy's own, the nested query object is the template's.
BuildDataShallowCopy(tmpl, p, cid) ==
    LET d == Overlay(tmpl, p, cid)
    IN  [data |-> d, tmpl |-> [tmpl EXCEPT !.query = d.query]]

\* Lines 64-77: `data`, and the template as the statements leave it.  The
\* overlay is written to a deep copy, so the template keeps its value.
BuildData(tmpl, p, cid) ==
    [data |-> Overlay(tmpl, p, cid), tmpl |-> tmpl]

NoData == [none |-> TRUE]
NoOp == [name |-> "none", arg |-> NoBody]

\* What every top-level call starts from: its own locals and an empty trace.
Begin(name, arg, req) ==
    /\ op' = [name |-> name, arg |-> arg]
    /\ trace' = <<>>
    /\ mr_start' = 0
    /\ data' = NoData
    /\ mr_req' = req
    /\ response' = NoResp
    /\ print_job_id' = ""
    /\ print_data' = NoData
    /\ polls' = 0

\* A direct call of get_session.
CallGetSession ==
    /\ pc = "idle"
    /\ Begin("get_session", NoBody, NoReq)
    /\ ret' = NoRet
    /\ pc' = "gs_landing"
    /\ stack' = <<>>
    /\ UNCHANGED <<obj_vars, search_query, srv, files, ref>>
    /\ UNCHANGED <<threads, manager>>

\* A client that never finds itself without a session.
NoSessionYetNever(cid) == FALSE

\* self.case_id is None, lines 62 and 158.
NoSessionYet(cid) == cid = NoSession

\* run_query, lines 62-63, called with one of the parameter records P.
CallRunQuery(P) ==
    /\ pc = "idle"
    /\ \E p \in P : Begin("run_query", p, NoReq)
    /\ ret' = NoRet
    /\ IF NoSessionYet(case_id)
       THEN pc' = "gs_landing" /\ stack' = <<"rq_build">>
       ELSE pc' = "rq_build" /\ stack' = <<>>
    /\ UNCHANGED <<obj_vars, search_query, srv, files, ref>>
    /\ UNCHANGED <<threads, manager>>

\* run_query, lines 64-82: build `data`, call make_request for the counts.
RunQueryBuild ==
    /\ pc = "rq_build"
    /\ LET b == BuildData(search_query, op.arg, case_id) IN
         /\ data' = b.data
         /\ search_query' = b.tmpl
         /\ mr_req' = Req("counts", b.data.query)
    /\ mr_start' = Len(trace)
    /\ Call("mr_first", "rq_counts")
    /\ UNCHANGED <<obj_vars, srv, files, op, ret, response, di_vars, trace>>
    /\ UNCHANGED <<threads, manager>>

\* run_query, lines 83-85.
RunQueryCounts ==
    /\ pc = "rq_counts"
    /\ IF IsError(response)
       THEN Raise("HTTPStatusError") /\ UNCHANGED <<mr_req, mr_start>>
       ELSE /\ mr_req' = Req("search", data)
            /\ mr_start' = Len(trace)
            /\ Call("mr_first", "rq_search")
            /\ ret' = ret
    /\ UNCHANGED <<obj_vars, search_query, srv, files, op, data, response,
                   di_vars, trace>>
    /\ UNCHANGED <<threads, manager>>

\* run_query, lines 86-92.
\* A run_query that does not look for the error object of the body.
EmbeddedErrorUnread(r) == FALSE

\* result.get("error", None) is not None, line 88.
EmbeddedError(r) == r.err # NoError

\* The message of lines 89-91.
ErrorText(e) == "Error #" \o Str(e.errorCode) \o "\n" \o e.errorMessage

RunQuerySearch ==
    /\ pc = "rq_search"
    /\ IF IsError(response)
       THEN Raise("HTTPStatusError")
       ELSE IF EmbeddedError(response)
            THEN RaiseWith("UsptoException", ErrorText(response.err[1]))
            ELSE Finish("page")
    /\ UNCHANGED <<obj_vars, search_query, srv, files, op, data, mr_req,
                   response, di_vars, trace, mr_start>>
    /\ UNCHANGED <<threads, manager>>

\* ----------------------------------------------------------- get_document
Guids == {"US-1", "US-2"}
Types == {"USPAT"}
Bibs == [guid : Guids, type : Types]

\* get_document, lines 106-113.
CallGetDocument ==
    /\ pc = "idle"
    /\ \E bib \in Bibs :
         Begin("get_document", bib,
               Req("document", [guid |-> bib.guid, source |-> bib.type]))
    /\ ret' = NoRet
    /\ pc' = "mr_first"
    /\ stack' = <<"gd_done">>
    /\ UNCHANGED <<obj_vars, search_query, srv, files, ref>>
    /\ UNCHANGED <<threads, manager>>

\* get_document, lines 114-115.
GetDocumentDone ==
    /\ pc = "gd_done"
    /\ IF IsError(response) THEN Raise("HTTPStatusError") ELSE Finish("document")
    /\ UNCHANGED <<obj_vars, search_query, srv, files, op, data, mr_req,
                   response, di_vars, trace, mr_start>>
    /\ UNCHANGED <<threads, manager>>

\* --------------------------------------------------------- download_image
Locations == {"X", "img/US/1"}
PageCounts == {0, 1, 3, MaxPages}
\* The records handed to download_image: guid, type, image_location and
\* document_structure.page_count.
Objs == [guid : Guids, type : Types, image_location : Locations,
         page_count : PageCounts]

RECURSIVE Digits(_)
Digits(i) == IF i < 10 THEN 1 ELSE 1 + Digits(i \div 10)

RECURSIVE Fill(_, _)
Fill(c, n) == IF n <= 0 THEN "" ELSE c \o Fill(c, n - 1)

\* The format spec 0>8 of line 137: right-aligned in 8 columns, filled with
\* "0"; a longer number is not cut.
PageWidth == 8
Pad(i) == Fill("0", PageWidth - Digits(i)) \o Str(i)

\* Page keys numbered from 0: range(page_count).
PageKeysFromZero(image_location, page_count) ==
    [i \in 1..page_count |-> image_location \o "/" \o Pad(i - 1) \o ".tif"]

\* Lines 136-139: range(1, page_count + 1).
PageKeys(image_location, page_count) ==
    [i \in 1..page_count |-> image_location \o "/" \o Pad(i) \o ".tif"]

\* The body posted by _request_save, lines 142-148.
SaveBody(obj, cid) ==
    [caseId |-> cid,
     pageKeys |-> PageKeys(obj.image_location, obj.page_count),
     patentGuid |-> obj.guid,
     saveOrPrint |-> "save",
     source |-> obj.type]

\* A test that never finds the file.
ExistsNowhere(g) == FALSE

\* out_path.exists(), line 156.
Exists(g) == files[g] # "absent"

\* download_image, lines 155-159, called with one of the records O.
CallDownloadImage(O) ==
    /\ pc = "idle"
    /\ \E obj \in O :
         /\ Begin("download_image", obj, NoReq)
         /\ IF Exists(obj.guid)
            THEN Finish("out_path")
            ELSE /\ ret' = NoRet
                 /\ IF NoSessionYet(case_id)
                    THEN pc' = "gs_landing" /\ stack' = <<"di_submit">>
                    ELSE pc' = "di_submit" /\ stack' = <<>>
    /\ UNCHANGED <<obj_vars, search_query, srv, files, ref>>
    /\ UNCHANGED <<threads, manager>>

JobIds == {"job-1", "job-2"}

\* What the server may answer to the print-job submission: a job id, or an
\* error status with its page as the text.
SubmitResponses ==
    {Resp(200, <<>>, NoError, j) : j \in JobIds}
    \cup {Resp(st, <<>>, NoError, "error page") : st \in {403, 429, 500}}
    \cup {Resp(500, <<>>, NoError, "internal error")}

\* A _request_save that lets a 500 through like any other status.
ServerErrorIgnored(r) == FALSE

\* response.status_code == 500, line 150.
ServerError(r) == r.st = 500

\* _request_save, lines 136-152, as called at line 161: the body is posted
\* with self.client.post, which returns the response whatever its status, so
\* no HTTPStatusError reaches the handler of line 162.
RequestSave ==
    /\ pc = "di_submit"
    /\ \E r \in SubmitResponses :
         /\ response' = r
         /\ trace' = Append(trace, EvBody(Req("submit", SaveBody(op.arg, case_id)),
                                          r.st, [text |-> r.text]))
         /\ IF ServerError(r)
            THEN RaiseWith("UsptoException", r.text) /\ print_job_id' = print_job_id
            ELSE /\ print_job_id' = r.text
                 /\ pc' = "di_poll"
                 /\ UNCHANGED <<stack, ret>>
    /\ UNCHANGED <<obj_vars, search_query, srv, files, op, data, mr_req,
                   print_data, polls, mr_start, ref>>
    /\ UNCHANGED <<threads, manager>>

PdfNames == {"a.pdf", "b.pdf"}
\* time.sleep(1), line 176.
PollInterval == 1

\* print_data[0] of a poll response.
PrintData(status, name) == [printStatus |-> status, pdfName |-> name]

\* What the server may answer to a status poll: an error status, a job that
\* is not done (for at most MaxPolls polls), or the finished job with the
\* name of its file.
PollAnswers ==
    {[st |-> e, body |-> NoBody] : e \in {403, 429, 500}}
    \cup {[st |-> 200, body |-> PrintData(s, "")] :
            s \in {x \in {"PENDING", "FAILED"} : polls < MaxPolls}}
    \cup {[st |-> 200, body |-> PrintData("COMPLETED", n)] : n \in PdfNames}

\* A loop left as soon as the job is no longer pending.
NotPending(body) == body.printStatus # "PENDING"

\* Line 174: the loop is left on the status COMPLETED.
Completed(body) == body.printStatus = "COMPLETED"

\* One turn of the loop of lines 165-176.
PollPrintJob ==
    /\ pc = "di_poll"
    /\ \E a \in PollAnswers :
         /\ response' = Resp(a.st, <<>>, NoError, "")
         /\ LET poll == EvBody(Req("poll", [job |-> print_job_id]), a.st, a.body) IN
            IF a.st # 200
            THEN /\ trace' = Append(trace, poll)
                 /\ Raise("HTTPStatusError")
                 /\ UNCHANGED <<print_data, polls>>
            ELSE /\ print_data' = a.body
                 /\ UNCHANGED <<stack, ret>>
                 /\ IF Completed(a.body)
                    THEN /\ trace' = Append(trace, poll)
                         /\ pc' = "di_download"
                         /\ polls' = polls
                    ELSE /\ trace' = trace \o <<poll, EvSleep(PollInterval)>>
                         /\ pc' = "di_poll"
                         /\ polls' = polls + 1
    /\ UNCHANGED <<obj_vars, search_query, srv, files, op, data, mr_req,
                   print_job_id, mr_start, ref>>
    /\ UNCHANGED <<threads, manager>>

\* The trace with the oldest turn of the poll loop (its poll request and
\* its sleep) dropped and the events of a new turn added.
Slide(tr, turn) ==
    LET IsPoll(ev) == ev.e = "req" /\ ev.req.kind = "poll"
        first == CHOOSE i \in 1..Len(tr) :
                     IsPoll(tr[i]) /\ \A j \in 1..(i - 1) : ~IsPoll(tr[j])
    IN  SubSeq(tr, 1, first - 1) \o SubSeq(tr, first + 2, Len(tr)) \o turn

\* A further turn of the loop of lines 165-176 once MaxPolls turns were
\* answered with a status other than COMPLETED: the poll is sent, the
\* server answers 200 and such a status again, the code sleeps one second
\* and goes round.  The loop has no counter of its own; `trace` keeps the
\* events of the call with the last MaxPolls turns of the loop, and `polls`
\* the number of turns kept.
PollStillPending ==
    /\ pc = "di_poll"
    /\ polls = MaxPolls
    /\ \E s \in {"PENDING", "FAILED"} :
         /\ ~Completed(PrintData(s, ""))
         /\ print_data' = PrintData(s, "")
         /\ trace' = Slide(trace, <<EvBody(Req("poll", [job |-> print_job_id]), 200,
                                          PrintData(s, "")),
                                   EvSleep(PollInterval)>>)
    /\ response' = Resp(200, <<>>, NoError, "")
    /\ UNCHANGED <<obj_vars, search_query, srv, files, pc, stack, op, ret, data,
                   mr_req, print_job_id, polls, mr_start, ref>>
    /\ UNCHANGED <<threads, manager>>

\* The chunks response.iter_bytes() yields, an empty one among them.
Streams == {<<"ab", "cd">>, <<"ab", "", "cd">>}

\* What the server may answer to the download GET: an error status, or a
\* stream of chunks that ends or that breaks after the chunks given.
DownloadAnswers ==
    {[st |-> e, stream |-> "none", chunks |-> <<>>] : e \in {403, 429, 500}}
    \cup {[st |-> 200, stream |-> x, chunks |-> c] :
              x \in {"complete", "broken"}, c \in Streams}

\* if chunk, line 187.
NonEmpty(chunk) == chunk # ""

\* Lines 186-188: what f.write receives, call by call.
WriteChunks(chunks) == SelectSeq(chunks, NonEmpty)

\* The file after out_path.open("wb") and the streaming of lines 178-191: it
\* exists from the open on, and holds the whole artifact only if the stream
\* reached its end.
Written(a) == IF a.st = 200 /\ a.stream = "complete" THEN "complete" ELSE "partial"

\* download_image, lines 177-192.
StreamDownload ==
    /\ pc = "di_download"
    /\ \E a \in DownloadAnswers :
         /\ response' = Resp(a.st, <<>>, NoError, "")
         /\ files' = [files EXCEPT ![op.arg.guid] = Written(a)]
         /\ LET req == EvBody(Req("download", [pdfName |-> print_data.pdfName]), a.st,
                              [chunks |-> a.chunks, written |-> WriteChunks(a.chunks)]) IN
            IF a.st # 200
            THEN /\ trace' = trace \o <<req, EvClose>>
                 /\ Raise("HTTPStatusError")
            ELSE /\ trace' = Append(trace, req)
                 /\ IF a.stream = "complete"
                    THEN Finish("out_path")
                    ELSE Raise("ReadError")
    /\ UNCHANGED <<obj_vars, search_query, srv, op, data, mr_req, di_vars,
                   mr_start>>
    /\ UNCHANGED <<threads, manager>>

\* ------------------------------------------------------ the specification
\* The object after __init__ (lines 32-49), an empty directory, no call made.
Init ==
    /\ case_id = NoSession
    /\ session = EmptyBody
    /\ access_token = NoSession
    /\ hdr_token = NoSession
    /\ cookies = NoSession
    /\ search_query = SearchQueryTemplate
    /\ srv = 0
    /\ files = [g \in Guids |-> "absent"]
    /\ pc = "idle"
    /\ stack = <<>>
    /\ op = NoOp
    /\ ret = NoRet
    /\ data = NoData
    /\ mr_req = NoReq
    /\ response = NoResp
    /\ print_job_id = ""
    /\ print_data = NoData
    /\ polls = 0
    /\ trace = <<>>
    /\ mr_start = 0
    /\ ref = NoRef
    /\ threads = [t \in Threads |-> IdleThread]
    /\ manager = NoManager

\* The observer of the determinism of run_query: it keeps one counts or
\* search request as it was sent, with the arguments of its call.
Last(tr) == tr[Len(tr)]
Remember ==
    /\ ref = NoRef
    /\ op.name = "run_query"
    /\ trace # <<>>
    /\ Last(trace).e = "req"
    /\ Last(trace).req.kind \in {"counts", "search"}
    /\ ref' = [p |-> op.arg, req |-> Last(trace).req]
    /\ UNCHANGED <<obj_vars, search_query, srv, files, pc, stack, op, ret, data,
                   mr_req, response, print_job_id, print_data, polls, trace,
                   mr_start>>
    /\ UNCHANGED <<threads, manager>>

\* The calls of the whole object, with two argument records per operation.
SomeParams == {DefaultParams, [DefaultParams EXCEPT !.sources = <<"A", "B">>]}
SomeObjs == {o \in Objs : o.image_location = "X" /\ o.page_count = 3}

Next ==
    \/ CallGetSession
    \/ GetSessionLanding
    \/ GetSessionPost
    \/ MakeRequestFirst
    \/ MakeRequestSecond
    \/ MakeRequestThird
    \/ CallRunQuery(SomeParams)
    \/ RunQueryBuild
    \/ RunQueryCounts
    \/ RunQuerySearch
    \/ CallGetDocument
    \/ GetDocumentDone
    \/ CallDownloadImage(SomeObjs)
    \/ RequestSave
    \/ PollPrintJob
    \/ StreamDownload

Spec == Init /\ [][Next]_vars

\* run_query alone, over all its parameter records.
NextQuery ==
    \/ CallGetSession
    \/ GetSessionLanding
    \/ GetSessionPost
    \/ MakeRequestFirst
    \/ MakeRequestSecond
    \/ MakeRequestThird
    \/ CallRunQuery(QueryParams)
    \/ RunQueryBuild
    \/ RunQueryCounts
    \/ RunQuerySearch

SpecQuery == Init /\ [][NextQuery]_vars

\* run_query and session renewals, with the observer.
NextObserved ==
    \/ CallGetSession
    \/ GetSessionLanding
    \/ GetSessionPost
    \/ MakeRequestFirst
    \/ MakeRequestSecond
    \/ MakeRequestThird
    \/ CallRunQuery(SomeParams)
    \/ RunQueryBuild
    \/ RunQueryCounts
    \/ RunQuerySearch
    \/ Remember

SpecObserved == Init /\ [][NextObserved]_vars

\* download_image alone, for one document with every location and page count.
OneDocument == {o \in Objs : o.guid = "US-1"}
NextExport ==
    \/ CallGetSession
    \/ GetSessionLanding
    \/ GetSessionPost
    \/ CallDownloadImage(OneDocument)
    \/ RequestSave
    \/ PollPrintJob
    \/ StreamDownload

SpecExport == Init /\ [][NextExport]_vars

\* ============================================================== the claims
\* What the make_request call in progress, or the last one made, has done.
MrCalled == mr_req # NoReq
MrSeg == SubSeq(trace, mr_start + 1, Len(trace))
\* make_request has just returned `response` to run_query or get_document.
MrReturned == pc \in {"rq_counts", "rq_search", "gd_done"}

IsOwn(ev) == ev.e = "req" /\ ev.req.kind \notin {"landing", "session"}
IsBoot(ev) == ev.e = "boot"
IsSleep(ev) == ev.e = "sleep"
\* The requests of a stretch of the trace that are not get_session's.
Own(seg) == SelectSeq(seg, IsOwn)
Boots(seg) == Len(SelectSeq(seg, IsBoot))
Sleeps(seg) == Len(SelectSeq(seg, IsSleep))
Statuses3(seg) == [i \in 1..Len(Own(seg)) |-> Own(seg)[i].st]

\* C1: when make_request returns after a first response of 403, it made
\* exactly one bootstrap, right after that response, and then reissued the
\* same request; unless that reissue was rate limited (a 429), it was the
\* only reissue and its response, a success or a second 403 alike, is what
\* the caller receives, with no second bootstrap.
C1_RetryOnceOn403 ==
    (MrReturned /\ MrSeg # <<>> /\ MrSeg[1].st = 403) =>
        LET own == Own(MrSeg) IN
        /\ Boots(MrSeg) = 1
        /\ IsBoot(MrSeg[2])
        /\ Len(own) >= 2
        /\ own[1].req = mr_req
        /\ own[2].req = mr_req
        /\ own[2].st # 429 => (Len(own) = 2 /\ response.st = own[2].st)

\* A 403, one bootstrap, the reissue answered 403 again, and that returned.
C1_Witness ==
    /\ MrReturned
    /\ Statuses3(MrSeg) = <<403, 403>>
    /\ Boots(MrSeg) = 1
    /\ response.st = 403

\* C2: a 429 with the header value N, received for the request as given or
\* for its reissue after a bootstrap, is followed at once by one sleep of at
\* least N + 1, and the sleep by one reissue of the same request, the last
\* thing the call does; make_request returns that reissue's response.
C2_BackoffThenReissue ==
    MrCalled =>
        \A i \in 1..Len(MrSeg) :
            (/\ IsOwn(MrSeg[i])
             /\ MrSeg[i].st = 429
             /\ ~HeaderRaises(MrSeg[i].hdr)
             /\ ~(i > 1 /\ IsSleep(MrSeg[i - 1]))) =>
                /\ Len(MrSeg) >= i + 1
                /\ IsSleep(MrSeg[i + 1])
                /\ MrSeg[i + 1].n >= IntOf(MrSeg[i].hdr[1]) + 1
                /\ Sleeps(MrSeg) = 1
                /\ Len(MrSeg) <= i + 2
                /\ Len(MrSeg) = i + 2 =>
                       (IsOwn(MrSeg[i + 2]) /\ MrSeg[i + 2].req = MrSeg[i].req)
                /\ MrReturned =>
                       (Len(MrSeg) = i + 2 /\ response.st = MrSeg[i + 2].st)

\* A 429 with header 1, a sleep of 2, the reissue answered 500 and returned.
C2_Witness ==
    /\ MrReturned
    /\ Len(MrSeg) = 3
    /\ MrSeg[1].st = 429 /\ MrSeg[1].hdr = <<(<<"1">>)>>
    /\ MrSeg[2] = EvSleep(2)
    /\ MrSeg[3].st = 500
    /\ response.st = 500

\* C3: whatever the server answers, one make_request call sends its request
\* at most three times, bootstraps at most once and only right after a 403
\* to the request as given, sleeps at most once and only after the bootstrap
\* (if any), sends one request after the sleep and returns its response,
\* whatever its status.
C3_AtMostOncePerCondition ==
    MrCalled =>
        /\ Len(Own(MrSeg)) <= 3
        /\ Boots(MrSeg) <= 1
        /\ Sleeps(MrSeg) <= 1
        /\ \A i \in 1..Len(MrSeg) :
               /\ IsBoot(MrSeg[i]) => (i = 2 /\ MrSeg[1].st = 403)
               /\ IsSleep(MrSeg[i]) =>
                      /\ Len(MrSeg) <= i + 1
                      /\ MrSeg[i - 1].st = 429
                      /\ \A j \in 1..Len(MrSeg) : IsBoot(MrSeg[j]) => j < i
        /\ MrReturned => response.st = MrSeg[Len(MrSeg)].st

\* Both recoveries used, and the 429 of the last reissue returned.
C3_Witness ==
    /\ MrReturned
    /\ Statuses3(MrSeg) = <<403, 429, 429>>
    /\ Boots(MrSeg) = 1 /\ Sleeps(MrSeg) = 1
    /\ response.st = 429

IsKind(ev, kind) == ev.e = "req" /\ ev.req.kind = kind
CountKind(tr, kind) == Cardinality({i \in 1..Len(tr) : IsKind(tr[i], kind)})
\* The top-level call has ended.
Ended(name) == pc = "idle" /\ op.name = name

\* C4: a download_image call that finds the destination file returns its
\* path in the same step, with no request, no bootstrap and no change to the
\* object or the directory; a download_image call that streamed to the end
\* leaves the file in place; and no call removes a file.  So the call after a
\* successful one makes no request.
C4_ExistingFileShortCircuits ==
    [][/\ (pc = "idle" /\ op'.name = "download_image"
              /\ files[op'.arg.guid] # "absent") =>
           (/\ pc' = "idle"
            /\ ret' = Returned("out_path")
            /\ trace' = <<>>
            /\ UNCHANGED <<obj_vars, srv, files>>)
       /\ (pc # "idle" /\ pc' = "idle" /\ op.name = "download_image"
              /\ ret'.kind = "return") =>
           files'[op.arg.guid] # "absent"
       /\ \A g \in Guids : files[g] # "absent" => files'[g] # "absent"]_vars

\* A second call for an exported document: the path, and an empty trace.
C4_Witness ==
    /\ Ended("download_image")
    /\ files[op.arg.guid] = "complete"
    /\ ret = Returned("out_path")
    /\ trace = <<>>

\* C5 (as claimed): a download_image call does not end with a destination
\* file that is only partly written unless it has itself attempted the
\* export; a call that finds such a file submits a print job again.
C5_PartialFileIsRetried ==
    (Ended("download_image") /\ files[op.arg.guid] = "partial") =>
        CountKind(trace, "submit") >= 1

\* C6: in download_image every status request carries the job identifier the
\* submission returned; each poll answered with a status other than
\* COMPLETED is followed by a sleep of 1 and then, if by anything, by the next
\* poll; no sleep follows the COMPLETED poll; the download request comes
\* right after the COMPLETED poll, asks for the pdfName of that response, and
\* when it is sent k polls and k - 1 sleeps have been made.
C6_PollProtocol ==
    op.name = "download_image" =>
        \A i \in 1..Len(trace) :
            LET ev == trace[i] IN
            /\ IsKind(ev, "poll") =>
                   /\ i > 1
                   /\ IsKind(trace[i - 1], "submit") \/ IsSleep(trace[i - 1])
                   /\ \E j \in 1..(i - 1) :
                          /\ IsKind(trace[j], "submit")
                          /\ ev.req.body.job = trace[j].body.text
                   /\ (ev.st = 200 /\ ev.body.printStatus # "COMPLETED") =>
                          (Len(trace) > i /\ trace[i + 1] = EvSleep(1))
                   /\ (ev.st = 200 /\ ev.body.printStatus = "COMPLETED"
                          /\ Len(trace) > i) =>
                          /\ IsKind(trace[i + 1], "download")
                          /\ trace[i + 1].req.body.pdfName = ev.body.pdfName
            /\ IsSleep(ev) =>
                   /\ i > 1
                   /\ IsKind(trace[i - 1], "poll")
                   /\ trace[i - 1].st = 200
                   /\ trace[i - 1].body.printStatus # "COMPLETED"
                   /\ Len(trace) > i => IsKind(trace[i + 1], "poll")
            /\ IsKind(ev, "download") =>
                   /\ i > 1
                   /\ IsKind(trace[i - 1], "poll")
                   /\ trace[i - 1].st = 200
                   /\ trace[i - 1].body.printStatus = "COMPLETED"
                   /\ CountKind(trace, "poll") = Sleeps(trace) + 1
                   /\ CountKind(trace, "download") = 1

PrintStatuses(tr) ==
    LET ps == SelectSeq(tr, LAMBDA ev : IsKind(ev, "poll")) IN
    [i \in 1..Len(ps) |-> ps[i].body.printStatus]

\* PENDING, PENDING, COMPLETED: three polls, two sleeps, then the download.
C6_Witness ==
    /\ op.name = "download_image"
    /\ trace # <<>>
    /\ IsKind(Last(trace), "download")
    /\ PrintStatuses(trace) = <<"PENDING", "PENDING", "COMPLETED">>
    /\ Sleeps(trace) = 2

\* The decimal numeral of a page number below 100, in 8 columns.
Numeral8(k) ==
    IF k < 10
    THEN "0000000" \o DigitChar[k + 1]
    ELSE "000000" \o DigitChar[(k \div 10) + 1] \o DigitChar[(k % 10) + 1]

\* C7: the pageKeys of a submitted print job has one entry per page of the
\* record, entry i being the image location, "/", i written in 8 columns
\* with leading zeros, and ".tif", for i = 1..page_count in this order; a
\* record without pages gives the empty list, and location X with 3 pages
\* gives X/00000001.tif, X/00000002.tif, X/00000003.tif.
C7_PageKeys ==
    \A i \in 1..Len(trace) :
        IsKind(trace[i], "submit") =>
            LET keys == trace[i].req.body.pageKeys
                obj == op.arg
            IN  /\ Len(keys) = obj.page_count
                /\ obj.page_count = 0 => keys = <<>>
                /\ \A k \in 1..Len(keys) :
                       keys[k] = obj.image_location \o "/" \o Numeral8(k) \o ".tif"
                /\ (obj.image_location = "X" /\ obj.page_count = 3) =>
                       keys = <<"X/00000001.tif", "X/00000002.tif", "X/00000003.tif">>

\* A print job submitted for a record of more than nine pages.
C7_Witness ==
    /\ trace # <<>>
    /\ IsKind(Last(trace), "submit")
    /\ Len(Last(trace).req.body.pageKeys) = MaxPages
    /\ Last(trace).req.body.pageKeys[10] = op.arg.image_location \o "/00000010.tif"

\* The query part of a counts or search request: the counts request posts
\* data["query"], the search request posts data.
QueryOf(req) == IF req.kind = "counts" THEN req.body ELSE req.body.query
\* A counts or search request with its caseId field blanked.
SansCaseId(req) ==
    IF req.kind = "counts"
    THEN [req.body EXCEPT !.caseId = NoSession]
    ELSE [req.body EXCEPT !.query.caseId = NoSession]
IsQueryReq(ev) == IsKind(ev, "counts") \/ IsKind(ev, "search")

\* C8: a counts or search request sent by run_query equals, but for its
\* caseId field, every request of the same kind that an earlier part of the
\* run sent for the same arguments, whatever calls, failures and session
\* renewals came in between.
C8_SameArgumentsSameBody ==
    (op.name = "run_query" /\ ref # NoRef /\ ref.p = op.arg) =>
        \A i \in 1..Len(trace) :
            (IsQueryReq(trace[i]) /\ trace[i].req.kind = ref.req.kind) =>
                SansCaseId(trace[i].req) = SansCaseId(ref.req)

\* The same arguments sent again under another session.
C8_Witness ==
    /\ op.name = "run_query" /\ ref # NoRef /\ ref.p = op.arg
    /\ trace # <<>>
    /\ IsKind(Last(trace), "search")
    /\ ref.req.kind = "search"
    /\ QueryOf(Last(trace).req).caseId # QueryOf(ref.req).caseId
    /\ QueryOf(ref.req).caseId # NoSession

\* C9: every counts and search request of run_query has one database filter
\* per source, in the order given, with that source's name and no country
\* code; op is the operator argument; q, queryName and userEnteredQuery are
\* the query text; and the search request's start, pageCount and sort are
\* the start, limit and sort arguments.  Sources A, B with the default
\* operator give the filters [{A, []}, {B, []}] and op "OR".
C9_RequestFields ==
    op.name = "run_query" =>
        \A i \in 1..Len(trace) :
            IsQueryReq(trace[i]) =>
                LET p == op.arg
                    q == QueryOf(trace[i].req)
                IN  /\ Len(q.databaseFilters) = Len(p.sources)
                    /\ \A k \in 1..Len(p.sources) :
                           /\ q.databaseFilters[k].databaseName = p.sources[k]
                           /\ q.databaseFilters[k].countryCodes = <<>>
                    /\ q.op = p.default_operator
                    /\ q.q = p.query
                    /\ q.queryName = p.query
                    /\ q.userEnteredQuery = p.query
                    /\ IsKind(trace[i], "search") =>
                           /\ trace[i].req.body.start = p.start
                           /\ trace[i].req.body.pageCount = p.limit
                           /\ trace[i].req.body.sort = p.sort
                    /\ (p.sources = <<"A", "B">> /\ p.default_operator = DefaultParams.default_operator) =>
                           /\ q.databaseFilters =
                                  <<[databaseName |-> "A", countryCodes |-> <<>>],
                                    [databaseName |-> "B", countryCodes |-> <<>>]>>
                           /\ q.op = "OR"

\* The search request for "battery AND charger", start 0, limit 500 and the
\* sources A, B has been sent.
C9_Witness ==
    /\ op.name = "run_query"
    /\ op.arg.sources = <<"A", "B">>
    /\ op.arg.query = "battery AND charger"
    /\ op.arg.start = 0 /\ op.arg.limit = 500
    /\ trace # <<>>
    /\ IsKind(Last(trace), "search")
    /\ Len(Last(trace).req.body.query.databaseFilters) = 2

\* C10 (as claimed): between calls, a case_id that is set comes with an
\* access token that is set and with the cookies of the same session.
C10_CaseIdImpliesTokenAndCookies ==
    (pc = "idle" /\ case_id # NoSession) =>
        (access_token # NoSession /\ cookies = case_id)

\* ------------------------------------------------------------ C11 .. C20
\* The five session fields of the object.
SessionFields == <<session.boot, case_id, access_token, hdr_token, cookies>>

\* C11 (as claimed): between calls, the session body, case_id, access_token,
\* the X-Access-Token default header and the cookie jar never mix values of
\* two bootstraps: any two of them that are set come from the same one.
C11_OneBootstrapOnly ==
    pc = "idle" =>
        \A i, j \in 1..Len(SessionFields) :
            (SessionFields[i] # NoSession /\ SessionFields[j] # NoSession) =>
                SessionFields[i] = SessionFields[j]

\* The submissions of the print job sent so far in this call.
Submits == {i \in 1..Len(trace) : IsKind(trace[i], "submit")}

\* C12 (as claimed): a print-job submission of download_image answered 403
\* is followed by one get_session bootstrap and one resubmission, and when
\* the resubmission fails as well the call ends with an error; no call goes
\* on to poll, or ends, on the strength of the first 403 alone.
C12_ResubmitOnceAfter403 ==
    op.name = "download_image" =>
        /\ Cardinality(Submits) <= 2
        /\ \A i \in Submits :
               (trace[i].st = 403 /\ \A j \in Submits : i <= j) =>
                   /\ i < Len(trace) =>
                          /\ IsBoot(trace[i + 1])
                          /\ Boots(SubSeq(trace, i + 1, Len(trace))) = 1
                   /\ i = Len(trace) => pc # "idle"
                   /\ \A j \in Submits :
                          (j > i /\ trace[j].st # 200) =>
                              (j = Len(trace) /\ pc = "idle" => ret.kind = "raise")

\* C13: a print-job submission answered 500 ends download_image at once
\* with a UsptoException carrying the response's text: it is the only
\* submission and the last event of the call (no bootstrap, resubmission,
\* poll or download follows it), and the destination file is not created.
C13_ServerErrorIsFatal ==
    op.name = "download_image" =>
        \A i \in Submits :
            trace[i].st = 500 =>
                /\ i = Len(trace)
                /\ Submits = {i}
                /\ CountKind(trace, "poll") = 0
                /\ CountKind(trace, "download") = 0
                /\ pc = "idle"
                /\ ret = RaisedWith("UsptoException", trace[i].body.text)
                /\ files[op.arg.guid] = "absent"

\* download_image has ended on a submission answered 500 with the text
\* "internal error", after bootstrapping for want of a session.
C13_Witness ==
    /\ Ended("download_image")
    /\ Len(trace) > 1
    /\ IsBoot(trace[1])
    /\ IsKind(Last(trace), "submit")
    /\ Last(trace).st = 500
    /\ Last(trace).body.text = "internal error"
    /\ ret = RaisedWith("UsptoException", "internal error")

\* run_query has ended after the search request got its final response.
SearchAnswered ==
    /\ Ended("run_query")
    /\ trace # <<>>
    /\ IsKind(Last(trace), "search")
    /\ response.st = Last(trace).st

\* C14: when the search response has a success status and its decoded body
\* holds an error object, run_query raises UsptoException with the message
\* "Error #<errorCode>\n<errorMessage>" of that object; run_query returns a
\* page exactly when the search response has a success status and no error
\* object.  (With another status the body is not decoded: HTTPStatusError.)
C14_EmbeddedErrorRaises ==
    /\ (SearchAnswered /\ response.st = 200 /\ response.err # NoError) =>
           /\ ret.kind = "raise"
           /\ ret.val = "UsptoException"
           /\ response.err[1].errorCode = 17 => ret.msg = "Error #17\nsyntax error"
           /\ response.err[1].errorCode = 404 => ret.msg = "Error #404\nno such field"
    /\ (Ended("run_query") /\ ret.kind = "return") <=>
           (SearchAnswered /\ response.st = 200 /\ response.err = NoError)
    /\ (SearchAnswered /\ response.st = 500) => ret = Raised("HTTPStatusError")

\* run_query has ended with the service error of a search response of
\* status 200 whose body holds the error object 404, "no such field".
C14_Witness ==
    /\ SearchAnswered
    /\ response.st = 200
    /\ response.err = <<[errorCode |-> 404, errorMessage |-> "no such field"]>>
    /\ ret = RaisedWith("UsptoException", "Error #404\nno such field")

\* The caseId field of a counts, search or submission request.
CaseIdOf(req) == IF req.kind = "submit" THEN req.body.caseId ELSE QueryOf(req).caseId
CarriesCaseId(ev) == IsQueryReq(ev) \/ IsKind(ev, "submit")

\* C15: the first thing a run_query or download_image call does on the
\* network is a get_session bootstrap exactly when case_id is null at that
\* moment, and no counts, search or submission request is ever sent with a
\* null caseId.
C15_BootstrapBeforeUse ==
    [][/\ (/\ op.name \in {"run_query", "download_image"}
           /\ op' = op
           /\ trace = <<>>
           /\ trace' # <<>>) =>
              (IsBoot(trace'[1]) <=> case_id = NoSession)
       /\ \A i \in 1..Len(trace') :
              CarriesCaseId(trace'[i]) => CaseIdOf(trace'[i].req) # NoSession]_vars

\* download_image, entered without a session, has bootstrapped and then
\* sent its submission with the new session's case id.
C15_Witness ==
    /\ op.name = "download_image"
    /\ Len(trace) > 1
    /\ IsBoot(trace[1])
    /\ IsKind(Last(trace), "submit")
    /\ Boots(trace) = 1
    /\ Last(trace).req.body.caseId = cookies
    /\ cookies # NoSession

\* C16 (as claimed): a request of run_query, get_document or download_image
\* whose response has a non-success status is followed by nothing but its
\* recovery (the bootstrap after a 403, the sleep after a 429) or the closing
\* of the response, and a call that ends on such a response ends with an
\* error: no call takes its next step or returns a result after it.
C16_NoSilentSuppression ==
    op.name \in {"run_query", "get_document", "download_image"} =>
        \A i \in 1..Len(trace) :
            (IsOwn(trace[i]) /\ trace[i].st # 200) =>
                /\ i < Len(trace) =>
                       \/ trace[i].st = 403 /\ IsBoot(trace[i + 1])
                       \/ trace[i].st = 429 /\ IsSleep(trace[i + 1])
                       \/ trace[i + 1].e = "close"
                /\ (i = Len(trace) /\ pc = "idle") => ret.kind = "raise"

\* C17 (as claimed): a status poll of download_image answered 403, unless
\* it is itself the reissue that follows a bootstrap, is followed by one
\* get_session bootstrap; the call does not end on it.
C17_PollsAreRetried ==
    op.name = "download_image" =>
        \A i \in 1..Len(trace) :
            (/\ IsKind(trace[i], "poll")
             /\ trace[i].st = 403
             /\ ~IsKind(trace[i - 1], "session")) =>
                /\ i < Len(trace) => IsBoot(trace[i + 1])
                /\ i = Len(trace) => pc # "idle"

\* Event i is the reissue of make_request's line 98: it follows the session
\* request of a bootstrap (get_session entered, landing request, session
\* request) that was entered on a request of the call answered 403.  The
\* bootstrap that run_query runs before it builds its request follows no
\* request.
Renewed(i) ==
    /\ i > 4
    /\ IsKind(trace[i - 1], "session")
    /\ IsBoot(trace[i - 3])
    /\ IsOwn(trace[i - 4])
    /\ trace[i - 4].st = 403

\* A request of run_query or get_document that make_request sends first
\* (line 95), not as the reissue after a renewal (line 98) or after a sleep
\* (line 102).
FirstSend(i) == ~Renewed(i) /\ (i = 1 \/ ~IsSleep(trace[i - 1]))

\* C18: in run_query every counts request precedes every search request
\* and the last response to the counts has status 200 when a search is
\* sent; get_document sends document requests only, one and its reissues;
\* and each of these requests has make_request's recovery: a 403 to its
\* first send is followed by a bootstrap, a 429 with its header to a send
\* that follows no sleep is followed by the sleep of header + 1 seconds.
C18_CountsThenSearch ==
    op.name \in {"run_query", "get_document"} =>
        /\ \A i \in 1..Len(trace) :
               IsKind(trace[i], "search") =>
                   /\ \A j \in 1..Len(trace) : IsKind(trace[j], "counts") => j < i
                   /\ \E j \in 1..(i - 1) :
                          /\ IsKind(trace[j], "counts")
                          /\ trace[j].st = 200
                          /\ \A k \in (j + 1)..(i - 1) : ~IsKind(trace[k], "counts")
        /\ op.name = "get_document" =>
               /\ \A i \in 1..Len(trace) : IsOwn(trace[i]) => IsKind(trace[i], "document")
               /\ Cardinality({i \in 1..Len(trace) : IsOwn(trace[i]) /\ FirstSend(i)}) <= 1
        /\ \A i \in 1..Len(trace) :
               IsOwn(trace[i]) =>
                   /\ (trace[i].st = 403 /\ FirstSend(i)) =>
                          IF i < Len(trace) THEN IsBoot(trace[i + 1])
                                            ELSE pc = "gs_landing"
                   /\ (/\ trace[i].st = 429
                       /\ ~HeaderRaises(trace[i].hdr)
                       /\ (i = 1 \/ ~IsSleep(trace[i - 1]))) =>
                          IF i < Len(trace)
                          THEN trace[i + 1] = EvSleep(IntOf(trace[i].hdr[1]) + 1)
                          ELSE pc = "mr_third"

\* run_query has sent its search request after a counts request that was
\* answered 403, renewed the session and was answered 200 when reissued.
C18_Witness ==
    /\ op.name = "run_query"
    /\ Len(trace) >= 6
    /\ IsKind(trace[1], "counts") /\ trace[1].st = 403
    /\ IsBoot(trace[2])
    /\ IsKind(trace[5], "counts") /\ trace[5].st = 200
    /\ IsKind(trace[6], "search")

\* C19: the stored query template always equals the template loaded at
\* construction, whatever run_query calls were made, with whatever
\* parameters and outcome.
C19_TemplateNeverMutated == search_query = SearchQueryTemplate

\* A run_query call has returned a page for a request body that differs
\* from the template in its query text, its filters and its case id, and
\* the template still has none of them.
C19_Witness ==
    /\ Ended("run_query")
    /\ ret = Returned("page")
    /\ data.query.q = op.arg.query
    /\ data.query.q # SearchQueryTemplate.query.q
    /\ data.query.databaseFilters # <<>>
    /\ data.query.caseId # NoSession
    /\ search_query.query.q = SearchQueryTemplate.query.q
    /\ search_query.query.databaseFilters = <<>>
    /\ search_query.query.caseId = NoSession

\* A bootstrap request that failed: the landing GET that raised, or a
\* session POST whose response lacks what get_session reads.
IsFailedBootstrap(ev) ==
    \/ IsKind(ev, "landing") /\ ev.st = 0
    \/ IsKind(ev, "session") /\ ~ev.body.token

\* C20: when the bootstrap that make_request starts after a 403 fails, the
\* call ends there with the bootstrap's own exception: that bootstrap is
\* the only one make_request made, the request was sent once and not
\* again, and no sleep took place.
C20_FailedRenewalPropagates ==
    MrCalled =>
        \A i \in (mr_start + 1)..Len(trace) :
            IsFailedBootstrap(trace[i]) =>
                /\ i = Len(trace)
                /\ pc = "idle"
                /\ ret = Raised(IF IsKind(trace[i], "landing") THEN "TransportError"
                                ELSE IF ~trace[i].body.json THEN "JSONDecodeError"
                                ELSE "KeyError")
                /\ Boots(MrSeg) = 1
                /\ Len(Own(MrSeg)) = 1
                /\ Own(MrSeg)[1].st = 403
                /\ Sleeps(MrSeg) = 0

\* run_query has ended with the KeyError of a bootstrap that its search
\* request's 403 started and whose session response held no case id.
C20_Witness ==
    /\ Ended("run_query")
    /\ MrCalled
    /\ Len(MrSeg) = 4
    /\ IsKind(MrSeg[1], "search") /\ MrSeg[1].st = 403
    /\ IsBoot(MrSeg[2])
    /\ IsKind(MrSeg[4], "session")
    /\ MrSeg[4].body.json /\ ~MrSeg[4].body.caseId
    /\ ret = Raised("KeyError")

\* ------------------------------------------------------------ C21 .. C26
\* A 429 among make_request's own requests whose retry-after header is
\* absent or not a number.
UnreadableLimit(ev) == IsOwn(ev) /\ ev.st = 429 /\ HeaderRaises(ev.hdr)

\* C21 (as claimed): whenever a 429 response to make_request's request has
\* no retry-after header or one that is not a number, make_request fails
\* with an error there and then: no sleep and no reissue follow, and the 429
\* response is not returned to the caller.
C21_UnreadableHeaderAlwaysFails ==
    MrCalled =>
        \A i \in 1..Len(MrSeg) :
            UnreadableLimit(MrSeg[i]) =>
                /\ i = Len(MrSeg)
                /\ pc = "idle"
                /\ ret \in {Raised("KeyError"), Raised("ValueError")}

\* C21 (amended): a 429 with an absent or non-numeric header that answers
\* the request as first sent, or its reissue after a renewal, ends the call
\* with KeyError (absent) or ValueError (not a number), with no sleep and no
\* reissue after it; a 429 that answers the reissue after a backoff is
\* returned to the caller as it is, whatever its header.
C21_UnreadableHeaderFails ==
    MrCalled =>
        \A i \in 1..Len(MrSeg) :
            UnreadableLimit(MrSeg[i]) =>
                IF i > 1 /\ IsSleep(MrSeg[i - 1])
                THEN /\ i = Len(MrSeg)
                     /\ pc \in {"rq_counts", "rq_search", "gd_done", "idle"}
                     /\ pc = "idle" => ret = Raised("HTTPStatusError")
                     /\ pc # "idle" => response.st = 429
                ELSE /\ i = Len(MrSeg)
                     /\ Sleeps(MrSeg) = 0
                     /\ pc = "idle"
                     /\ ret = Raised(IF MrSeg[i].hdr = <<>> THEN "KeyError"
                                     ELSE "ValueError")

\* A call has ended with the ValueError of a first response of 429 whose
\* header reads "soon".
C21_Witness ==
    /\ pc = "idle"
    /\ MrCalled
    /\ Len(MrSeg) = 1
    /\ MrSeg[1].st = 429
    /\ MrSeg[1].hdr = <<(<<"s", "o", "o", "n">>)>>
    /\ ret = Raised("ValueError")

\* The bytes of a sequence of chunks, end to end.
RECURSIVE Join(_)
Join(chunks) == IF chunks = <<>> THEN "" ELSE Head(chunks) \o Join(Tail(chunks))

\* C22 (as claimed): a download_image call that fails once its download
\* request is sent has closed the streamed response (the close follows the
\* request in the call's events); a call that returns has written the
\* non-empty chunks of the stream, and only them, in the order they came.
C22_StreamFailureCloses ==
    Ended("download_image") =>
        \A i \in 1..Len(trace) :
            IsKind(trace[i], "download") =>
                /\ ret.kind = "raise" =>
                       (i < Len(trace) /\ trace[i + 1].e = "close")
                /\ ret.kind = "return" =>
                       /\ \A k \in 1..Len(trace[i].body.written) :
                              trace[i].body.written[k] # ""
                       /\ Join(trace[i].body.written) = Join(trace[i].body.chunks)

\* ------------------------------------------------ two callers, one object
\* Two threads call run_query on the same PublicSearchApi.  The object has
\* no lock, so the threads interleave between any two statements that touch
\* its fields or the client; `trace` holds the request sent last, with the
\* caseId of its body and the default header and cookie jar it went out with.
seq_vars == <<search_query, files, pc, stack, op, ret, data, mr_req, response,
              print_job_id, print_data, polls, mr_start, ref, manager>>

At(t, where) == threads[t].pc = where
Move(t, r) == threads' = [threads EXCEPT ![t] = r]
Goto(t, where) == Move(t, [threads[t] EXCEPT !.pc = where])

\* self.client.request(method, url, **kwargs), lines 95, 98 and 102: the
\* body as built, the client's header and cookies as they are now.
Sent(t, st) ==
    EvReq(Req(threads[t].kind, [caseId |-> threads[t].caseId,
                                token |-> hdr_token,
                                cookies |-> cookies]), st)

ThreadStatuses == {200, 403, 429, 500}

\* run_query, lines 62-63.
ThreadCall(t) ==
    /\ At(t, "idle")
    /\ IF NoSessionYet(case_id)
       THEN Move(t, [IdleThread EXCEPT !.pc = "gs_clear", !.back = "build"])
       ELSE Move(t, [IdleThread EXCEPT !.pc = "build"])
    /\ UNCHANGED <<obj_vars, srv, trace, seq_vars>>

\* run_query, lines 64-77: data["query"]["caseId"] = self.case_id.
ThreadBuild(t) ==
    /\ At(t, "build")
    /\ Move(t, [threads[t] EXCEPT !.pc = "first", !.kind = "counts",
                                  !.caseId = case_id])
    /\ UNCHANGED <<obj_vars, srv, trace, seq_vars>>

\* run_query, lines 83-92, once make_request has returned status st: the
\* search follows a successful counts, anything else ends the call.
ThreadReturn(t, st) ==
    IF st = 200 /\ threads[t].kind = "counts"
    THEN Move(t, [threads[t] EXCEPT !.pc = "first", !.kind = "search"])
    ELSE Goto(t, "idle")

\* make_request, lines 99-101, on a response of status 429: the header is
\* read, which ends the call with KeyError or ValueError when it is absent
\* or not a number, and the thread sleeps before it sends again.
ThreadBackoff(t) ==
    \E h \in RetryHeaders :
        IF HeaderRaises(h) THEN Goto(t, "idle") ELSE Goto(t, "third")

\* make_request, lines 95-101.
ThreadFirst(t) ==
    /\ At(t, "first")
    /\ \E st \in ThreadStatuses :
         /\ trace' = <<Sent(t, st)>>
         /\ IF st = 403
            THEN Move(t, [threads[t] EXCEPT !.pc = "gs_clear", !.back = "second"])
            ELSE IF st = 429 THEN ThreadBackoff(t) ELSE ThreadReturn(t, st)
    /\ UNCHANGED <<obj_vars, srv, seq_vars>>

\* make_request, lines 98-101: the reissue after get_session returned.
ThreadSecond(t) ==
    /\ At(t, "second")
    /\ \E st \in ThreadStatuses :
         /\ trace' = <<Sent(t, st)>>
         /\ IF st = 429 THEN ThreadBackoff(t) ELSE ThreadReturn(t, st)
    /\ UNCHANGED <<obj_vars, srv, seq_vars>>

\* make_request, lines 102-103: the reissue after the sleep.
ThreadThird(t) ==
    /\ At(t, "third")
    /\ \E st \in ThreadStatuses :
         /\ trace' = <<Sent(t, st)>>
         /\ ThreadReturn(t, st)
    /\ UNCHANGED <<obj_vars, srv, seq_vars>>

\* get_session, line 118.
ThreadClearCookies(t) ==
    /\ At(t, "gs_clear")
    /\ cookies' = NoSession
    /\ Goto(t, "gs_landing")
    /\ UNCHANGED <<case_id, session, access_token, hdr_token, srv, trace, seq_vars>>

\* get_session, line 119: the landing page sets the cookies of a new
\* session, or the transport fails, at any call, and the exception ends
\* the thread's call with the jar as line 118 left it.
ThreadLanding(t) ==
    /\ At(t, "gs_landing")
    /\ \/ /\ srv < MaxSessions
          /\ srv' = srv + 1
          /\ cookies' = srv + 1
          /\ Move(t, [threads[t] EXCEPT !.pc = "gs_post", !.boot = srv + 1])
       \/ /\ Goto(t, "idle")
          /\ UNCHANGED <<srv, cookies>>
    /\ UNCHANGED <<case_id, session, access_token, hdr_token, trace, seq_vars>>

\* get_session, lines 121-128: the session POST is answered.
ThreadPost(t) ==
    /\ At(t, "gs_post")
    /\ \E a \in SessionAnswers :
         Move(t, [threads[t] EXCEPT !.pc = "gs_session", !.answer = a])
    /\ UNCHANGED <<obj_vars, srv, trace, seq_vars>>

\* get_session, line 129.
ThreadStoreSession(t) ==
    /\ At(t, "gs_session")
    /\ IF StoresBody(threads[t].answer)
       THEN session' = StoredBody(threads[t].boot, threads[t].answer) /\ Goto(t, "gs_case")
       ELSE session' = session /\ Goto(t, "idle")
    /\ UNCHANGED <<case_id, access_token, hdr_token, cookies, srv, trace, seq_vars>>

\* get_session, line 130: self.session["userCase"]["caseId"] is read from
\* the object, which holds the body stored last by either thread; a body
\* without userCase raises KeyError in this thread.
ThreadStoreCase(t) ==
    /\ At(t, "gs_case")
    /\ IF session.userCase
       THEN case_id' = session.boot /\ Goto(t, "gs_token")
       ELSE case_id' = case_id /\ Goto(t, "idle")
    /\ UNCHANGED <<session, access_token, hdr_token, cookies, srv, trace, seq_vars>>

\* get_session, line 131.
ThreadStoreToken(t) ==
    /\ At(t, "gs_token")
    /\ IF StoresToken(threads[t].answer)
       THEN access_token' = threads[t].boot /\ Goto(t, "gs_header")
       ELSE access_token' = access_token /\ Goto(t, "idle")
    /\ UNCHANGED <<case_id, session, hdr_token, cookies, srv, trace, seq_vars>>

\* get_session, lines 132-133: the header takes self.access_token as it is
\* now, and get_session returns to its caller.
ThreadStoreHeader(t) ==
    /\ At(t, "gs_header")
    /\ hdr_token' = access_token
    /\ Goto(t, threads[t].back)
    /\ UNCHANGED <<case_id, session, access_token, cookies, srv, trace, seq_vars>>

NextConcurrent ==
    \E t \in Threads :
        \/ ThreadCall(t)
        \/ ThreadBuild(t)
        \/ ThreadFirst(t)
        \/ ThreadSecond(t)
        \/ ThreadThird(t)
        \/ ThreadClearCookies(t)
        \/ ThreadLanding(t)
        \/ ThreadPost(t)
        \/ ThreadStoreSession(t)
        \/ ThreadStoreCase(t)
        \/ ThreadStoreToken(t)
        \/ ThreadStoreHeader(t)

SpecConcurrent == Init /\ [][NextConcurrent]_vars

\* C23 (as claimed): with two callers on one object, every counts or search
\* request goes out with a caseId, an X-Access-Token header and a cookie
\* jar that belong to one and the same bootstrap.
C23_ReadsSeeCompleteSession ==
    \A i \in 1..Len(trace) :
        IsQueryReq(trace[i]) =>
            /\ trace[i].req.body.caseId # NoSession
            /\ trace[i].req.body.token = trace[i].req.body.caseId
            /\ trace[i].req.body.cookies = trace[i].req.body.caseId

\* ------------------------------------------------- the poll loop, unbounded
\* download_image with a server that may go on answering the status polls
\* with a status other than COMPLETED; the program always takes its next step.
NextPolling ==
    \/ GetSessionLanding
    \/ GetSessionPost
    \/ CallDownloadImage(SomeObjs)
    \/ RequestSave
    \/ PollPrintJob
    \/ PollStillPending
    \/ StreamDownload

SpecPolling == Init /\ [][NextPolling]_vars /\ WF_vars(NextPolling)

\* C24 (as claimed): a download_image call that is in its poll loop
\* eventually leaves it, by a COMPLETED status or with an error, whatever
\* statuses the server returns.
C24_PollLoopEnds == (pc = "di_poll") ~> (pc # "di_poll")

\* C25 (as claimed): a counts or search request of run_query carries the
\* case_id the object holds when the request is sent, also when it is the
\* reissue after a renewal or the search that follows one.
C25_CurrentCaseIdSent ==
    (op.name = "run_query" /\ trace # <<>> /\ IsQueryReq(Last(trace))) =>
        CaseIdOf(Last(trace).req) = case_id

\* ------------------------------------------ USApplicationManager (peds.py)
\* Largest result set drawn below the record cap, and the number of page
\* requests the server may fail for one manager.
MaxFound == 45
MaxFails == 1

\* page_size, line 41.
PageSize == 20
\* max_length > 1000, line 55.
RecordCap == 1000

\* numFound of the server's result set; config["offset"]; config["limit"],
\* 0 standing for no limit (None and 0 alike fail the test `not limit`).
\* The sets at the record cap are drawn with a limit.
SmallFounds == {0, 1, PageSize, PageSize + 1, MaxFound}
Founds == SmallFounds \cup {RecordCap, RecordCap + 1}
Offsets == {0, 3, 25}
Limits == {0, 1, PageSize, 30}
Configs ==
    {c \in [found : Founds, offset : Offsets, limit : Limits] :
        c.found \in SmallFounds \/ c.limit # 0}
PageNumbers == 0..(RecordCap \div PageSize)
Keys == {19, 20, 41}
\* The page numbers get_page is called with on its own.
Pages == {0, 1, 2}

\* The generators of __iter__ the consumer may hold at a time.
Iterators == {"it1", "it2"}

\* The docs of the response to a query with "start": start (line 122): the
\* records start, start + 1, ... of the result set, a page of PageSize at
\* most (the request names no "rows", the server pages by its default).
ServerDocs(found, start) ==
    LET n == IF found - start < 0 THEN 0
             ELSE IF found - start < PageSize THEN found - start ELSE PageSize
    IN  [i \in 1..n |-> start + i - 1]

\* data["queryResults"]["searchResponse"]["response"], line 84.
PageResponse(found, offset, page_no) ==
    [numFound |-> found, docs |-> ServerDocs(found, page_no * PageSize + offset)]

\* A generator of __iter__: where it stands (none: the consumer holds no
\* generator here; new: created, not started; suspended: at the yield of
\* line 70; done: ran off the end; or the exception that ended it), its
\* locals, the position in page_data["docs"], and what it has yielded.
NoIter ==
    [st |-> "none", num_pages |-> 0, page_num |-> 0, pos |-> 0, counter |-> 0,
     yielded |-> <<>>]

\* A manager after __init__ (lines 43-45) with its configuration, the
\* result set its query has on the server, the page requests answered ok
\* and not ok, the outcome of the last get_item and the generators held.
NewManager(found, offset, limit) ==
    [found |-> found, offset |-> offset, limit |-> limit,
     pages |-> [p \in {} |-> <<>>],
     fetched |-> [p \in PageNumbers |-> 0], failed |-> 0,
     out |-> "none", item |-> 0,
     iters |-> [i \in Iterators |-> NoIter]]

\* An exception leaves get_item.
Raises(m, exc) == [m EXCEPT !.out = exc]

\* A get_page that asks the server every time.
CachedNever(m, page_number) == FALSE

\* page_number in self.pages, line 75.
Cached(m, page_number) == page_number \in DOMAIN m.pages

\* Lines 76-84 with an ok response: the page is stored.
FetchOk(m, page_number) ==
    [m EXCEPT !.pages = [p \in (DOMAIN m.pages) \cup {page_number} |->
                            IF p = page_number
                            THEN PageResponse(m.found, m.offset, page_number)
                            ELSE m.pages[p]],
              !.fetched[page_number] = @ + 1]

\* Lines 78-82 and is_online, lines 146-160: after a response that is not
\* ok the search-fields request is sent; answered ok, get_page raises
\* HttpException, answered not ok, is_online raises NotAvailableException.
FetchErrors == {"HttpException", "NotAvailableException"}

\* A page request answered not ok: line 84 stores nothing.
FetchFail(m) == [m EXCEPT !.failed = @ + 1]

\* get_page(page_number), lines 74-85: the ways it may end, each with the
\* manager as it leaves it; ok when it returned the page, else the
\* exception it raised.
GetPage(m, page_number) ==
    IF Cached(m, page_number)
    THEN {[ok |-> TRUE, exc |-> "", m |-> m]}
    ELSE {[ok |-> TRUE, exc |-> "", m |-> FetchOk(m, page_number)]}
         \cup {[ok |-> FALSE, exc |-> e, m |-> FetchFail(m)] :
                 e \in {x \in FetchErrors : m.failed < MaxFails}}

\* __len__, lines 53-60.
MaxLength(m) == m.pages[0].numFound - m.offset
Length(m) ==
    IF m.limit = 0 THEN MaxLength(m)
    ELSE IF m.limit < MaxLength(m) THEN m.limit ELSE MaxLength(m)

\* math.ceil(n / page_size), line 63.
Ceil(n, d) == (n + d - 1) \div d

\* len(manager), lines 52-60: the ways it may end, each with the manager as
\* it leaves it; ok with the length it returned, else the exception raised,
\* that of get_page(0), or ValueError above the cap (line 56) and for a
\* negative __len__.
LenOf(m) ==
    {IF ~r.ok THEN [ok |-> FALSE, exc |-> r.exc, val |-> 0, m |-> r.m]
     ELSE IF MaxLength(r.m) > RecordCap \/ Length(r.m) < 0
          THEN [ok |-> FALSE, exc |-> "ValueError", val |-> 0, m |-> r.m]
          ELSE [ok |-> TRUE, exc |-> "", val |-> Length(r.m), m |-> r.m] :
        r \in GetPage(m, 0)}

\* __iter__, lines 63-65, once len(self) has returned n.
StartIter(g, n) ==
    [g EXCEPT !.num_pages = Ceil(n, PageSize), !.page_num = 0, !.counter = 0]

\* __iter__ from the test of the while (line 66) or from the next item of
\* the for (line 68) up to the next yield, the end or an exception: the
\* ways it may go, each with the manager and the generator as they are then.
RECURSIVE RunWhile(_, _), RunFor(_, _)
RunWhile(m, g) ==
    IF g.page_num < g.num_pages
    THEN UNION {IF r.ok THEN RunFor(r.m, [g EXCEPT !.pos = 0])
                ELSE {[m |-> r.m, g |-> [g EXCEPT !.st = r.exc]]} :
                    r \in GetPage(m, g.page_num)}
    ELSE {[m |-> m, g |-> [g EXCEPT !.st = "done"]]}

RunFor(m, g) ==
    LET docs == m.pages[g.page_num].docs IN
    IF g.pos < Len(docs)
    THEN IF m.limit = 0 \/ g.counter < m.limit
         THEN {[m |-> m,
                g |-> [g EXCEPT !.st = "suspended",
                                !.yielded = Append(@, docs[g.pos + 1])]]}
         ELSE RunFor(m, [g EXCEPT !.counter = @ + 1, !.pos = @ + 1])
    ELSE RunWhile(m, [g EXCEPT !.page_num = @ + 1])

\* next() of a generator: a new one runs from line 63, a suspended one goes
\* on after its yield with line 71.
Resume(m, g) ==
    IF g.st = "new"
    THEN UNION {IF r.ok THEN RunWhile(r.m, StartIter(g, r.val))
                ELSE {[m |-> r.m, g |-> [g EXCEPT !.st = r.exc]]} :
                    r \in LenOf(m)}
    ELSE RunFor(m, [g EXCEPT !.counter = @ + 1, !.pos = @ + 1])

\* get_item, lines 48-50.
Item(m, key) ==
    LET docs == m.pages[key \div PageSize].docs
        pos == key % PageSize
    IN  IF pos < Len(docs)
        THEN [m EXCEPT !.out = "item", !.item = docs[pos + 1]]
        ELSE Raises(m, "IndexError")

api_vars == <<obj_vars, search_query, srv, files, pc, stack, op, ret, data,
              mr_req, response, print_job_id, print_data, polls, trace,
              mr_start, ref, threads>>

\* USApplication.objects.filter(...) with an offset and a limit.
MakeManager ==
    /\ manager = NoManager
    /\ \E c \in Configs : manager' = NewManager(c.found, c.offset, c.limit)
    /\ UNCHANGED api_vars

\* iter(manager): a generator is created, none of its body runs.
IterStart ==
    /\ manager # NoManager
    /\ \E i \in Iterators :
         /\ manager.iters[i].st = "none"
         /\ manager' = [manager EXCEPT !.iters[i] = [NoIter EXCEPT !.st = "new"]]
    /\ UNCHANGED api_vars

\* next() of a generator that has not ended: it runs to its next yield,
\* to its end or to an exception, the other generators as they are.
IterNext ==
    /\ manager # NoManager
    /\ \E i \in Iterators :
         /\ manager.iters[i].st \in {"new", "suspended"}
         /\ \E r \in Resume(manager, manager.iters[i]) :
              manager' = [r.m EXCEPT !.iters[i] = r.g]
    /\ UNCHANGED api_vars

\* The consumer drops a generator, ended or not (a break in the for loop,
\* the end of the loop).
IterDrop ==
    /\ manager # NoManager
    /\ \E i \in Iterators :
         /\ manager.iters[i].st # "none"
         /\ manager' = [manager EXCEPT !.iters[i] = NoIter]
    /\ UNCHANGED api_vars

\* manager[key], between two steps of the generators as well.
GetItem ==
    /\ manager # NoManager
    /\ \E key \in Keys :
         \E r \in GetPage([manager EXCEPT !.out = "none", !.item = 0], key \div PageSize) :
             manager' = IF r.ok THEN Item(r.m, key) ELSE Raises(r.m, r.exc)
    /\ UNCHANGED api_vars

\* manager.get_page(page_number), called on its own: the page is returned
\* or the exception raised, the cache as get_page leaves it.
CallGetPage ==
    /\ manager # NoManager
    /\ \E p \in Pages : \E r \in GetPage(manager, p) : manager' = r.m
    /\ UNCHANGED api_vars

\* len(manager), called on its own: the length is returned or the
\* exception raised, the cache as get_page(0) leaves it.
CallLen ==
    /\ manager # NoManager
    /\ \E r \in LenOf(manager) : manager' = r.m
    /\ UNCHANGED api_vars

NextPaging ==
    \/ MakeManager
    \/ CallGetPage
    \/ CallLen
    \/ IterStart
    \/ IterNext
    \/ IterDrop
    \/ GetItem

SpecPaging == Init /\ [][NextPaging]_vars

\* The number of applications the claim gives for a manager.
Expected(m) ==
    IF m.limit = 0 \/ m.found - m.offset < m.limit
    THEN m.found - m.offset
    ELSE m.limit

\* C26: for a result set of 0 to 1000 records past the offset, a generator
\* that has ended has yielded the records offset, offset + 1, ... of the
\* result set, min(limit, numFound - offset) of them, or numFound - offset
\* without a limit, one that has not ended has yielded the first of these
\* so far, and ValueError is never raised; whatever was iterated or indexed
\* in between, no page number was fetched with success more than once, a
\* page is in the cache exactly when it was, and so a failed fetch cached
\* nothing.
C26_PagingYieldsLen ==
    manager # NoManager =>
        /\ manager.found - manager.offset \in 0..RecordCap =>
               \A i \in Iterators :
                   LET g == manager.iters[i] IN
                   /\ g.st # "ValueError"
                   /\ g.st = "done" => Len(g.yielded) = Expected(manager)
                   /\ Len(g.yielded) <= Expected(manager)
                   /\ \A k \in 1..Len(g.yielded) :
                          g.yielded[k] = manager.offset + k - 1
        /\ \A p \in PageNumbers :
               /\ manager.fetched[p] <= 1
               /\ p \in DOMAIN manager.pages <=> manager.fetched[p] = 1

\* A generator over 45 records from offset 3 with limit 30 has ended with
\* 30 applications from two pages, after one page request had failed, while
\* a second generator stands at its first yield.
C26_Witness ==
    /\ manager # NoManager
    /\ manager.found = 45 /\ manager.offset = 3 /\ manager.limit = 30
    /\ manager.iters["it1"].st = "done"
    /\ Len(manager.iters["it1"].yielded) = 30
    /\ manager.iters["it1"].yielded[1] = 3
    /\ manager.iters["it1"].yielded[30] = 32
    /\ manager.iters["it2"].st = "suspended"
    /\ Len(manager.iters["it2"].yielded) = 1
    /\ manager.failed = 1
    /\ DOMAIN manager.pages = {0, 1}

====
